---- MODULE Spec2Model ----
(***************************************************************************)
(* Model of salary_report (src/src/main.py): parse_csv, the two reports    *)
(* PayoutReport.generate and AverageRateReport.generate, write_output and  *)
(* main.                                                                   *)
(*                                                                         *)
(* Text is a sequence of one-character strings, so that str.strip,         *)
(* str.split(",") and float() are computed and not assumed.  A number is   *)
(* held in thousandths (float("60.25") is 60250), a product of two numbers *)
(* in millionths, and a value rounded by round(x, 2) in hundredths.  The   *)
(* numeric texts of the model are dyadic rationals of at most three        *)
(* decimals, for which IEEE double arithmetic is exact and round(x, 2)     *)
(* rounds the exact value half to even.                                    *)
(***************************************************************************)
EXTENDS Integers, Sequences, FiniteSets, TLC

(* ------------------------------------------------------------------ *)
(* Text helpers                                                        *)
(* ------------------------------------------------------------------ *)

Range(s) == { s[i] : i \in 1..Len(s) }

\* The characters str.strip() removes (the ones the model's texts use).
Whitespace == { " ", "\t", "\n" }

RECURSIVE LStrip(_)
LStrip(s) ==
  IF s # << >> /\ Head(s) \in Whitespace THEN LStrip(Tail(s)) ELSE s

RECURSIVE RStrip(_)
RStrip(s) ==
  IF s # << >> /\ s[Len(s)] \in Whitespace
  THEN RStrip(SubSeq(s, 1, Len(s) - 1)) ELSE s

\* str.strip()
Strip(s) == RStrip(LStrip(s))

\* str.split(","): cur is the piece being read; "".split(",") is [""].
RECURSIVE SplitFrom(_, _)
SplitFrom(s, cur) ==
  IF s = << >> THEN << cur >>
  ELSE IF Head(s) = "," THEN << cur >> \o SplitFrom(Tail(s), << >>)
  ELSE SplitFrom(Tail(s), Append(cur, Head(s)))

SplitComma(s) == SplitFrom(s, << >>)

\* [x.strip() for x in line.strip().split(",")]
SplitFields(line) ==
  LET parts == SplitComma(Strip(line))
  IN  [ i \in 1..Len(parts) |-> Strip(parts[i]) ]

(* ------------------------------------------------------------------ *)
(* float() and round(x, 2)                                             *)
(* ------------------------------------------------------------------ *)

Digits == { "0", "1", "2", "3", "4", "5", "6", "7", "8", "9" }

DigitVal(c) ==
  CASE c = "0" -> 0 [] c = "1" -> 1 [] c = "2" -> 2 [] c = "3" -> 3
    [] c = "4" -> 4 [] c = "5" -> 5 [] c = "6" -> 6 [] c = "7" -> 7
    [] c = "8" -> 8 [] c = "9" -> 9

AllDigits(s) == \A i \in 1..Len(s) : s[i] \in Digits

RECURSIVE DigitsVal(_)
DigitsVal(s) ==
  IF s = << >> THEN 0
  ELSE 10 * DigitsVal(SubSeq(s, 1, Len(s) - 1)) + DigitVal(s[Len(s)])

\* Index of the first "." of s, or Len(s) + 1.
DotPos(s) ==
  IF \E i \in 1..Len(s) : s[i] = "."
  THEN CHOOSE i \in 1..Len(s) : s[i] = "." /\ \A j \in 1..(i - 1) : s[j] # "."
  ELSE Len(s) + 1

IntPart(s) == SubSeq(s, 1, DotPos(s) - 1)
FracPart(s) == SubSeq(s, DotPos(s) + 1, Len(s))

\* The digits of an unsigned decimal literal: digits, at most one ".",
\* at least one digit.
UnsignedOk(s) ==
  /\ AllDigits(IntPart(s))
  /\ AllDigits(FracPart(s))
  /\ Len(IntPart(s)) + Len(FracPart(s)) >= 1

\* The fraction digits in thousandths (the model's texts have at most three).
FracMilli(f) ==
  CASE Len(f) = 0 -> 0
    [] Len(f) = 1 -> 100 * DigitsVal(f)
    [] Len(f) = 2 -> 10 * DigitsVal(f)
    [] OTHER      -> DigitsVal(SubSeq(f, 1, 3))

UnsignedMilli(s) == 1000 * DigitsVal(IntPart(s)) + FracMilli(FracPart(s))

HasSign(s) == s # << >> /\ Head(s) \in { "+", "-" }
Unsigned(s) == IF HasSign(s) THEN Tail(s) ELSE s

\* float(text) returns: surrounding whitespace allowed, an optional sign, a
\* decimal literal.  Otherwise float raises ValueError.
FloatOk(text) == UnsignedOk(Unsigned(Strip(text)))

\* The value of float(text), in thousandths, where FloatOk(text).
FloatVal(text) ==
  LET s == Strip(text)
  IN  IF HasSign(s) /\ Head(s) = "-"
      THEN 0 - UnsignedMilli(Tail(s))
      ELSE UnsignedMilli(Unsigned(s))

Abs(x) == IF x < 0 THEN 0 - x ELSE x

\* Nearest integer to num / den (den > 0), a tie going to the even one.
RoundHalfEvenDiv(num, den) ==
  LET q == num \div den
      r == num % den
  IN  IF 2 * r < den THEN q
      ELSE IF 2 * r > den THEN q + 1
      ELSE IF q % 2 = 0 THEN q ELSE q + 1


(* ------------------------------------------------------------------ *)
(* Records and the two reports                                         *)
(* ------------------------------------------------------------------ *)

\* Field names, as text.
ID == << "i", "d" >>
NAME == << "n", "a", "m", "e" >>
DEPARTMENT == << "d", "e", "p", "a", "r", "t", "m", "e", "n", "t" >>
HOURS_WORKED == << "h", "o", "u", "r", "s", "_", "w", "o", "r", "k", "e", "d" >>
HOURLY_RATE == << "h", "o", "u", "r", "l", "y", "_", "r", "a", "t", "e" >>
RATE == << "r", "a", "t", "e" >>
SALARY == << "s", "a", "l", "a", "r", "y" >>

\* src.constants.VALID_RATE_FIELDS: the rate fields in priority order.
VALID_RATE_FIELDS == << HOURLY_RATE, RATE, SALARY >>

\* src.constants.REPORT_NAMES: the choices of --report.
REPORT_NAMES == { "payout", "average_rate" }

EmptyText == << >>

\* r.get(key, default)
Get(r, key, default) == IF key \in DOMAIN r THEN r[key] ELSE default

\* Whether next((f for f in VALID_RATE_FIELDS if f in r), None) is a field.
HasRateField(r) ==
  \E i \in 1..Len(VALID_RATE_FIELDS) : VALID_RATE_FIELDS[i] \in DOMAIN r

\* A resolver that takes the last rate field present instead of the first.
RateFieldLast(r) ==
  VALID_RATE_FIELDS[
    CHOOSE i \in 1..Len(VALID_RATE_FIELDS) :
      /\ VALID_RATE_FIELDS[i] \in DOMAIN r
      /\ \A j \in (i + 1)..Len(VALID_RATE_FIELDS) :
           VALID_RATE_FIELDS[j] \notin DOMAIN r ]

\* next((f for f in VALID_RATE_FIELDS if f in r), None), where it is a field.
RateField(r) ==
  VALID_RATE_FIELDS[
    CHOOSE i \in 1..Len(VALID_RATE_FIELDS) :
      /\ VALID_RATE_FIELDS[i] \in DOMAIN r
      /\ \A j \in 1..(i - 1) : VALID_RATE_FIELDS[j] \notin DOMAIN r ]

\* A variant in which a record without hours_worked raises like one with bad hours.
HoursOkRequired(r) == HOURS_WORKED \in DOMAIN r /\ FloatOk(r[HOURS_WORKED])

\* float(r.get("hours_worked", 0)) returns.
HoursOk(r) == HOURS_WORKED \notin DOMAIN r \/ FloatOk(r[HOURS_WORKED])

\* Its value in thousandths: float(0) when the field is absent.
Hours(r) == IF HOURS_WORKED \in DOMAIN r THEN FloatVal(r[HOURS_WORKED]) ELSE 0

\* A variant that rounds to one decimal: round(hours * rate, 1).
RoundPayoutOneDecimal(hours, rate) == 10 * RoundHalfEvenDiv(hours * rate, 100000)

\* round(hours * rate, 2), in hundredths.
RoundPayout(hours, rate) == RoundHalfEvenDiv(hours * rate, 10000)

\* A variant in which hours that are not numeric count as zero hours.
PayoutStepBadHoursAsZero(r) ==
  IF ~HasRateField(r) THEN [ ok |-> FALSE, diag |-> "missing_rate" ]
  ELSE IF ~FloatOk(r[RateField(r)]) THEN [ ok |-> FALSE, diag |-> "error" ]
  ELSE [ ok |-> TRUE,
         entry |-> [ id |-> Get(r, ID, EmptyText),
                     name |-> Get(r, NAME, EmptyText),
                     department |-> Get(r, DEPARTMENT, EmptyText),
                     payout |->
                       IF HoursOk(r)
                       THEN RoundPayout(Hours(r), FloatVal(r[RateField(r)]))
                       ELSE 0 ] ]

\* What one iteration of PayoutReport.generate's loop does with record r:
\* the entry it appends (ok) or the warning it logs.
PayoutStep(r) ==
  IF ~HoursOk(r) THEN [ ok |-> FALSE, diag |-> "error" ]
  ELSE IF ~HasRateField(r) THEN [ ok |-> FALSE, diag |-> "missing_rate" ]
  ELSE IF ~FloatOk(r[RateField(r)]) THEN [ ok |-> FALSE, diag |-> "error" ]
  ELSE [ ok |-> TRUE,
         entry |-> [ id |-> Get(r, ID, EmptyText),
                     name |-> Get(r, NAME, EmptyText),
                     department |-> Get(r, DEPARTMENT, EmptyText),
                     payout |->
                       RoundPayout(Hours(r), FloatVal(r[RateField(r)])) ] ]

\* A variant whose try statement encloses the loop: the first record that
\* raises ends the loop, and the entries made so far are returned.
RECURSIVE PayoutResultsAbortOnError(_)
PayoutResultsAbortOnError(recs) ==
  IF recs = << >> THEN << >>
  ELSE LET step == PayoutStep(Head(recs))
       IN  IF step.ok
           THEN << step.entry >> \o PayoutResultsAbortOnError(Tail(recs))
           ELSE IF step.diag = "error" THEN << >>
           ELSE PayoutResultsAbortOnError(Tail(recs))

\* The result list of PayoutReport.generate after the loop over recs.
RECURSIVE PayoutResults(_)
PayoutResults(recs) ==
  IF recs = << >> THEN << >>
  ELSE LET init == SubSeq(recs, 1, Len(recs) - 1)
           step == PayoutStep(recs[Len(recs)])
       IN  IF step.ok THEN Append(PayoutResults(init), step.entry)
           ELSE PayoutResults(init)

\* The warnings PayoutReport.generate logs, in order.
RECURSIVE PayoutWarnings(_)
PayoutWarnings(recs) ==
  IF recs = << >> THEN << >>
  ELSE LET init == SubSeq(recs, 1, Len(recs) - 1)
           step == PayoutStep(recs[Len(recs)])
       IN  IF step.ok THEN PayoutWarnings(init)
           ELSE Append(PayoutWarnings(init), step.diag)

\* PayoutReport.generate(recs)
PayoutGenerate(recs) == [ report |-> "payout", results |-> PayoutResults(recs) ]

\* A variant that parses hours_worked first, as the payout report does.
AverageStepChecksHours(r) ==
  IF ~HoursOk(r) THEN [ ok |-> FALSE, diag |-> "error" ]
  ELSE IF ~HasRateField(r) THEN [ ok |-> FALSE, diag |-> "missing_rate" ]
  ELSE IF ~FloatOk(r[RateField(r)]) THEN [ ok |-> FALSE, diag |-> "error" ]
  ELSE [ ok |-> TRUE,
         dept |-> Get(r, DEPARTMENT, EmptyText),
         rate |-> FloatVal(r[RateField(r)]) ]

\* A variant in which a rate that is not numeric counts as a rate of zero.
AverageStepZeroOnError(r) ==
  IF ~HasRateField(r) THEN [ ok |-> FALSE, diag |-> "missing_rate" ]
  ELSE [ ok |-> TRUE,
         dept |-> Get(r, DEPARTMENT, EmptyText),
         rate |-> IF FloatOk(r[RateField(r)])
                  THEN FloatVal(r[RateField(r)]) ELSE 0 ]

\* What one iteration of AverageRateReport.generate's loop does with r.
AverageStep(r) ==
  IF ~HasRateField(r) THEN [ ok |-> FALSE, diag |-> "missing_rate" ]
  ELSE IF ~FloatOk(r[RateField(r)]) THEN [ ok |-> FALSE, diag |-> "error" ]
  ELSE [ ok |-> TRUE,
         dept |-> Get(r, DEPARTMENT, EmptyText),
         rate |-> FloatVal(r[RateField(r)]) ]

\* departments.setdefault(dept, []).append(rate)
SetDefaultAppend(depts, dept, rate) ==
  IF dept \in DOMAIN depts
  THEN [ depts EXCEPT ![dept] = Append(@, rate) ]
  ELSE (dept :> << rate >>) @@ depts

\* The dict departments after the loop over recs.
RECURSIVE Departments(_)
Departments(recs) ==
  IF recs = << >> THEN << >>
  ELSE LET init == SubSeq(recs, 1, Len(recs) - 1)
           step == AverageStep(recs[Len(recs)])
       IN  IF step.ok
           THEN SetDefaultAppend(Departments(init), step.dept, step.rate)
           ELSE Departments(init)

\* The warnings AverageRateReport.generate logs, in order.
RECURSIVE AverageWarnings(_)
AverageWarnings(recs) ==
  IF recs = << >> THEN << >>
  ELSE LET init == SubSeq(recs, 1, Len(recs) - 1)
           step == AverageStep(recs[Len(recs)])
       IN  IF step.ok THEN AverageWarnings(init)
           ELSE Append(AverageWarnings(init), step.diag)

RECURSIVE SumSeq(_)
SumSeq(s) == IF s = << >> THEN 0 ELSE Head(s) + SumSeq(Tail(s))

\* round(sum(rates) / len(rates), 2), in hundredths.
RoundMean(rates) == RoundHalfEvenDiv(SumSeq(rates), 10 * Len(rates))

\* {dept: round(sum(rates) / len(rates), 2) for dept, rates in departments.items() if rates}
Averages(depts) ==
  [ dept \in { d \in DOMAIN depts : depts[d] # << >> } |-> RoundMean(depts[dept]) ]

\* AverageRateReport.generate(recs)
AverageRateGenerate(recs) ==
  [ report |-> "average_rate", results |-> Averages(Departments(recs)) ]

(* ------------------------------------------------------------------ *)
(* parse_csv                                                           *)
(* ------------------------------------------------------------------ *)

\* The lines a text file yields when read line by line: each line keeps its
\* "\n"; a last line without one is a line too; the empty text has no line.
RECURSIVE LinesFrom(_, _)
LinesFrom(text, cur) ==
  IF text = << >> THEN (IF cur = << >> THEN << >> ELSE << cur >>)
  ELSE IF Head(text) = "\n"
       THEN << Append(cur, "\n") >> \o LinesFrom(Tail(text), << >>)
       ELSE LinesFrom(Tail(text), Append(cur, Head(text)))

FileLines(text) == LinesFrom(text, << >>)

\* f.readline() on a fresh file: the first line, or "" at end of file.
ReadLine(text) == IF FileLines(text) = << >> THEN << >> ELSE Head(FileLines(text))

\* The lines the loop "for line in f" sees after the readline.
DataLines(text) == IF FileLines(text) = << >> THEN << >> ELSE Tail(FileLines(text))

\* header = [h.strip() for h in f.readline().strip().split(",")]
Header(text) == SplitFields(ReadLine(text))

Min(a, b) == IF a < b THEN a ELSE b

\* dict(zip(header, values)): zip stops at the shorter list, and a name that
\* is repeated in the header keeps the value of its last column.
DictZip(header, values) ==
  LET n == Min(Len(header), Len(values))
  IN  [ k \in { header[i] : i \in 1..n } |->
          values[CHOOSE i \in 1..n :
                   header[i] = k /\ \A j \in (i + 1)..n : header[j] # k] ]

\* A variant that rejects only the rows with too many values.
ArityMismatchOnlyLonger(header, line) == Len(SplitFields(line)) > Len(header)

\* len(values) != len(header)
ArityMismatch(header, line) == Len(SplitFields(line)) # Len(header)

\* A variant that leaves the loop at the first rejected row (break for continue).
RECURSIVE ParseLinesStopAtMismatch(_, _)
ParseLinesStopAtMismatch(header, ls) ==
  IF ls = << >> THEN << >>
  ELSE IF ArityMismatch(header, Head(ls)) THEN << >>
  ELSE << DictZip(header, SplitFields(Head(ls))) >>
         \o ParseLinesStopAtMismatch(header, Tail(ls))

\* The list records after the loop over the data lines ls.
RECURSIVE ParseLines(_, _)
ParseLines(header, ls) ==
  IF ls = << >> THEN << >>
  ELSE LET init == SubSeq(ls, 1, Len(ls) - 1)
           line == ls[Len(ls)]
       IN  IF ArityMismatch(header, line) THEN ParseLines(header, init)
           ELSE Append(ParseLines(header, init), DictZip(header, SplitFields(line)))

\* The warnings logged during the loop: the stripped text of each rejected line.
RECURSIVE ParseWarnings(_, _)
ParseWarnings(header, ls) ==
  IF ls = << >> THEN << >>
  ELSE LET init == SubSeq(ls, 1, Len(ls) - 1)
           line == ls[Len(ls)]
       IN  IF ArityMismatch(header, line)
           THEN Append(ParseWarnings(header, init), Strip(line))
           ELSE ParseWarnings(header, init)

\* A file on disk: status "ok" with its text, "missing" (open raises
\* FileNotFoundError) or "unreadable" (open or a read raises another exception).
FileOk(file) == file.status = "ok"

\* parse_csv(file) for a readable file: the records returned.
ParseCsv(file) == ParseLines(Header(file.text), DataLines(file.text))

\* parse_csv(file) for a readable file: the warnings logged.
ParseCsvWarnings(file) == ParseWarnings(Header(file.text), DataLines(file.text))

\* The error parse_csv logs before sys.exit(1).
ParseCsvError(file) ==
  IF file.status = "missing" THEN "file_not_found" ELSE "read_error"

(* ------------------------------------------------------------------ *)
(* write_output                                                        *)
(* ------------------------------------------------------------------ *)

\* --output: given or not, Path(output_path).suffix.lower(), and whether the
\* file can be opened for writing.
NoOutput == [ given |-> FALSE, suffix |-> "", writable |-> TRUE ]

\* What write_output leaves behind: nothing, the JSON document on stdout, or
\* the document in the output file as JSON or as a CSV table.
NothingWritten == [ dest |-> "none", format |-> "none" ]

\* write_output(data, output_path) ends in sys.exit(1).
WriteFails(out) ==
  out.given /\ (out.suffix \notin { ".json", ".csv" } \/ ~out.writable)

\* What write_output has written when it returns.
WriteOutput(out) ==
  IF ~out.given THEN [ dest |-> "stdout", format |-> "json" ]
  ELSE IF out.suffix = ".json" THEN [ dest |-> "file", format |-> "json" ]
  ELSE [ dest |-> "file", format |-> "csv" ]

\* The error write_output logs before sys.exit(1).
WriteError(out) ==
  IF out.suffix \notin { ".json", ".csv" } THEN "unsupported_output_format"
  ELSE "write_error"

(* ------------------------------------------------------------------ *)
(* Inputs                                                              *)
(* ------------------------------------------------------------------ *)

\* Most records in one generate call.
MaxRecords == 2
\* Most lines (header and data) in the file of one parse_csv call.
MaxLines == 3
\* Most files on main's command line.
MaxFiles == 2

SeqsUpTo(S, n) == UNION { [ 1..k -> S ] : k \in 0..n }

RECURSIVE Concat(_)
Concat(ss) == IF ss = << >> THEN << >> ELSE Head(ss) \o Concat(Tail(ss))

\* The empty mapping, and a mapping of one key.
NoField == << >>
Opt(key, values) == { NoField } \cup { key :> v : v \in values }

\* Who the record is about; what it says about hours; what about rates.
WhoSet ==
  { NoField,
    (ID :> << "1" >>) @@ (NAME :> << "A", "l" >>) @@ (DEPARTMENT :> << "H", "R" >>),
    (ID :> << "2" >>) @@ (DEPARTMENT :> EmptyText) }

HoursSet == Opt(HOURS_WORKED, { << "2", ".", "5" >>, << "b", "a", "d" >> })

RatesSet ==
  { NoField,
    (HOURLY_RATE :> << "3", "0", ".", "2", "5" >>) @@ (RATE :> << "6", "0", ".", "2", "5" >>),
    (HOURLY_RATE :> << "x" >>) @@ (RATE :> << "6", "0", ".", "2", "5" >>),
    (SALARY :> << "-", "4", "5", ".", "5" >>) }

\* The records a generate call is given.
RecordSet == { w @@ h @@ r : w \in WhoSet, h \in HoursSet, r \in RatesSet }

\* The lines of the files parse_csv is called on, without their "\n".
RawLines ==
  { << >>,
    << "a", ",", "b" >>,
    << "a", ",", "a" >>,
    << " ", "a", " ", ",", " ", "b", " " >>,
    << "1" >>,
    << "1", ",", "2" >>,
    << "1", ",", "2", ",", "3" >> }

Terminated(ls) == Concat([ i \in 1..Len(ls) |-> Append(ls[i], "\n") ])

\* A text of at most MaxLines lines, its last line with or without "\n".
Texts ==
  LET full == { Terminated(ls) : ls \in SeqsUpTo(RawLines, MaxLines) }
  IN  full \cup { SubSeq(t, 1, Len(t) - 1) : t \in full \ { << >> } }

MissingFile == [ status |-> "missing", text |-> << >> ]
UnreadableFile == [ status |-> "unreadable", text |-> << >> ]
TextFile(t) == [ status |-> "ok", text |-> t ]

\* The files a parse_csv call is given.
FileSet == { TextFile(t) : t \in Texts } \cup { MissingFile, UnreadableFile }

RECURSIVE JoinComma(_)
JoinComma(fields) ==
  IF Len(fields) = 0 THEN << >>
  ELSE IF Len(fields) = 1 THEN fields[1]
  ELSE fields[1] \o << "," >> \o JoinComma(Tail(fields))

CsvText(rows) == Terminated([ i \in 1..Len(rows) |-> JoinComma(rows[i]) ])

\* The files on main's command line: one with a row of non-numeric hours,
\* one with a row of the wrong arity, one that is missing, one unreadable.
MainFileSet ==
  { TextFile(CsvText(<< << DEPARTMENT, HOURS_WORKED, HOURLY_RATE >>,
                        << << "H", "R" >>, << "2", ".", "5" >>, << "3", "0", ".", "2", "5" >> >>,
                        << << "H", "R" >>, << "b", "a", "d" >>, << "3", "0", ".", "2", "5" >> >> >>)),
    TextFile(CsvText(<< << ID, NAME, SALARY >>,
                        << << "1" >>, << "A", "l" >> >>,
                        << << "2" >>, << "B", "o" >>, << "-", "4", "5", ".", "5" >> >> >>)),
    MissingFile,
    UnreadableFile }

\* The values of --output.
OutputSet ==
  { NoOutput,
    [ given |-> TRUE, suffix |-> ".json", writable |-> TRUE ],
    [ given |-> TRUE, suffix |-> ".csv", writable |-> TRUE ],
    [ given |-> TRUE, suffix |-> ".csv", writable |-> FALSE ],
    [ given |-> TRUE, suffix |-> ".txt", writable |-> TRUE ] }

(* ------------------------------------------------------------------ *)
(* State                                                               *)
(* ------------------------------------------------------------------ *)

VARIABLES
  file,            \* the file parse_csv is called on
  parsed,          \* the list parse_csv returned
  records,         \* the list the generate calls are given
  payout_report,   \* << >>, or the document PayoutReport.generate returned
  average_report,  \* << >>, or the document AverageRateReport.generate returned
  departments,     \* AverageRateReport.generate's dict departments after its loop
  files,           \* main: args.files
  report_name,     \* main: args.report
  output,          \* main: args.output
  nparsed,         \* main: how many files the loop has parsed
  all_records,     \* main: all_records
  report,          \* main: << >>, or the document generate returned
  written,         \* main: what write_output has written
  pc,              \* where the run is
  exit_code,       \* the process's exit code once pc is "exit" or "done"
  log              \* the logging records emitted, in order

vars == << file, parsed, records, payout_report, average_report, departments,
           files, report_name, output, nparsed, all_records, report, written,
           pc, exit_code, log >>

parseVars == << file, parsed >>
reportVars == << records, payout_report, average_report, departments >>
mainVars == << files, report_name, output, nparsed, all_records, report, written >>

NoFile == [ status |-> "ok", text |-> << >> ]

\* A logging record: its level, which message it is, and the input line the
\* message quotes (the empty text when it quotes none).
Info(msg) == [ level |-> "INFO", msg |-> msg, line |-> EmptyText ]
Warning(msg) == [ level |-> "WARNING", msg |-> msg, line |-> EmptyText ]
Error(msg) == [ level |-> "ERROR", msg |-> msg, line |-> EmptyText ]
LineWarning(line) == [ level |-> "WARNING", msg |-> "arity_mismatch", line |-> line ]

\* The warnings among the logging records l.
Warnings(l) == SelectSeq(l, LAMBDA e : e.level = "WARNING")

AsWarnings(msgs) == [ i \in 1..Len(msgs) |-> Warning(msgs[i]) ]

\* What a PayoutReport.generate call logs.
PayoutLog(recs) == << Info("report_payout") >> \o AsWarnings(PayoutWarnings(recs))

\* What an AverageRateReport.generate call logs.
AverageLog(recs) ==
  << Info("report_average_rate") >> \o AsWarnings(AverageWarnings(recs))

(* ------------------------------------------------------------------ *)
(* The reports: generate calls on one list of records                  *)
(* ------------------------------------------------------------------ *)

InitReports ==
  /\ records \in SeqsUpTo(RecordSet, MaxRecords)
  /\ file = NoFile /\ parsed = << >>
  /\ payout_report = << >> /\ average_report = << >> /\ departments = << >>
  /\ files = << >> /\ report_name = "payout" /\ output = NoOutput
  /\ nparsed = 0 /\ all_records = << >> /\ report = << >>
  /\ written = NothingWritten
  /\ pc = "reports" /\ exit_code = 0 /\ log = << >>

\* PayoutReport().generate(records)
CallPayoutGenerate ==
  /\ pc = "reports"
  /\ payout_report = << >>
  /\ payout_report' = << PayoutGenerate(records) >>
  /\ log' = log \o PayoutLog(records)
  /\ UNCHANGED << records, average_report, departments, pc, exit_code,
                  parseVars, mainVars >>

\* AverageRateReport().generate(records)
CallAverageRateGenerate ==
  /\ pc = "reports"
  /\ average_report = << >>
  /\ departments' = Departments(records)
  /\ average_report' = << AverageRateGenerate(records) >>
  /\ log' = log \o AverageLog(records)
  /\ UNCHANGED << records, payout_report, pc, exit_code, parseVars, mainVars >>

NextReports == CallPayoutGenerate \/ CallAverageRateGenerate

Spec == InitReports /\ [][NextReports]_vars

(* ------------------------------------------------------------------ *)
(* parse_csv: one call on one file                                     *)
(* ------------------------------------------------------------------ *)

InitParse ==
  /\ file \in FileSet
  /\ parsed = << >>
  /\ records = << >> /\ payout_report = << >> /\ average_report = << >>
  /\ departments = << >>
  /\ files = << >> /\ report_name = "payout" /\ output = NoOutput
  /\ nparsed = 0 /\ all_records = << >> /\ report = << >>
  /\ written = NothingWritten
  /\ pc = "parse_csv" /\ exit_code = 0 /\ log = << >>

\* What parse_csv(f) logs when it returns.
ParseCsvLog(f) ==
  << Info("reading_file") >>
    \o [ i \in 1..Len(ParseCsvWarnings(f)) |-> LineWarning(ParseCsvWarnings(f)[i]) ]

\* What parse_csv(f) logs when it ends in sys.exit(1).
ParseCsvExitLog(f) == << Info("reading_file"), Error(ParseCsvError(f)) >>

\* parse_csv(file) returns its records.
ParseCsvReturn ==
  /\ pc = "parse_csv"
  /\ FileOk(file)
  /\ parsed' = ParseCsv(file)
  /\ log' = log \o ParseCsvLog(file)
  /\ pc' = "returned"
  /\ UNCHANGED << file, exit_code, reportVars, mainVars >>

\* parse_csv(file) cannot read the file: sys.exit(1).
ParseCsvExit ==
  /\ pc = "parse_csv"
  /\ ~FileOk(file)
  /\ log' = log \o ParseCsvExitLog(file)
  /\ pc' = "exit"
  /\ exit_code' = 1
  /\ UNCHANGED << file, parsed, reportVars, mainVars >>

NextParse == ParseCsvReturn \/ ParseCsvExit

SpecParse == InitParse /\ [][NextParse]_vars

(* ------------------------------------------------------------------ *)
(* main                                                                *)
(* ------------------------------------------------------------------ *)

InitMain ==
  /\ files \in SeqsUpTo(MainFileSet, MaxFiles) \ { << >> }
  /\ report_name \in REPORT_NAMES
  /\ output \in OutputSet
  /\ nparsed = 0 /\ all_records = << >> /\ report = << >>
  /\ written = NothingWritten
  /\ file = NoFile /\ parsed = << >>
  /\ records = << >> /\ payout_report = << >> /\ average_report = << >>
  /\ departments = << >>
  /\ pc = "parse" /\ exit_code = 0
  /\ log = << Info("report_type"), Info("input_files") >>

\* One iteration of "for file in args.files": all_records.extend(parse_csv(file)).
MainParseFile ==
  /\ pc = "parse"
  /\ nparsed < Len(files)
  /\ FileOk(files[nparsed + 1])
  /\ all_records' = all_records \o ParseCsv(files[nparsed + 1])
  /\ log' = log \o ParseCsvLog(files[nparsed + 1])
  /\ nparsed' = nparsed + 1
  /\ UNCHANGED << files, report_name, output, report, written, pc, exit_code,
                  parseVars, reportVars >>

\* A variant that logs the unreadable file and goes on to the next one.
MainParseSkip ==
  /\ pc = "parse"
  /\ nparsed < Len(files)
  /\ ~FileOk(files[nparsed + 1])
  /\ log' = log \o ParseCsvExitLog(files[nparsed + 1])
  /\ nparsed' = nparsed + 1
  /\ UNCHANGED << files, report_name, output, all_records, report, written, pc,
                  exit_code, parseVars, reportVars >>

\* The iteration whose parse_csv ends the process.
MainParseExit ==
  /\ pc = "parse"
  /\ nparsed < Len(files)
  /\ ~FileOk(files[nparsed + 1])
  /\ log' = log \o ParseCsvExitLog(files[nparsed + 1])
  /\ pc' = "exit"
  /\ exit_code' = 1
  /\ UNCHANGED << files, report_name, output, nparsed, all_records, report,
                  written, parseVars, reportVars >>

\* match args.report ... report = report_class.generate(all_records)
MainGenerate ==
  /\ pc = "parse"
  /\ nparsed = Len(files)
  /\ \/ /\ report_name = "payout"
        /\ report' = << PayoutGenerate(all_records) >>
        /\ log' = log \o PayoutLog(all_records)
     \/ /\ report_name = "average_rate"
        /\ report' = << AverageRateGenerate(all_records) >>
        /\ log' = log \o AverageLog(all_records)
  /\ pc' = "write"
  /\ UNCHANGED << files, report_name, output, nparsed, all_records, written,
                  exit_code, parseVars, reportVars >>

\* write_output(report, args.output), and main returns.
MainWriteOutput ==
  /\ pc = "write"
  /\ ~WriteFails(output)
  /\ written' = WriteOutput(output)
  /\ log' = IF output.given THEN Append(log, Info("report_saved")) ELSE log
  /\ pc' = "done"
  /\ exit_code' = 0
  /\ UNCHANGED << files, report_name, output, nparsed, all_records, report,
                  parseVars, reportVars >>

\* write_output ends the process: unsupported suffix, or the write fails.
MainWriteExit ==
  /\ pc = "write"
  /\ WriteFails(output)
  /\ log' = Append(log, Error(WriteError(output)))
  /\ pc' = "exit"
  /\ exit_code' = 1
  /\ UNCHANGED << files, report_name, output, nparsed, all_records, report,
                  written, parseVars, reportVars >>

NextMain ==
  \/ MainParseFile
  \/ MainParseExit
  \/ MainGenerate
  \/ MainWriteOutput
  \/ MainWriteExit

SpecMain == InitMain /\ [][NextMain]_vars

(* ------------------------------------------------------------------ *)
(* What the claims speak of, stated without the reports' own operators *)
(* ------------------------------------------------------------------ *)

RateFieldNames == { HOURLY_RATE, RATE, SALARY }

\* The rate field earliest in the order hourly_rate, rate, salary.
EarliestRateField(r) ==
  IF HOURLY_RATE \in DOMAIN r THEN HOURLY_RATE
  ELSE IF RATE \in DOMAIN r THEN RATE ELSE SALARY

\* Two or more rate fields are present.
MultiRate(r) == Cardinality(RateFieldNames \cap DOMAIN r) >= 2

\* The resolved rate is present and numeric.
RateValid(r) ==
  /\ RateFieldNames \cap DOMAIN r # { }
  /\ FloatOk(r[EarliestRateField(r)])

\* hours_worked is absent or numeric.
HoursValid(r) == HOURS_WORKED \notin DOMAIN r \/ FloatOk(r[HOURS_WORKED])

PayoutValid(r) == RateValid(r) /\ HoursValid(r)

\* In thousandths.
RateOf(r) == FloatVal(r[EarliestRateField(r)])
HoursOf(r) == IF HOURS_WORKED \in DOMAIN r THEN FloatVal(r[HOURS_WORKED]) ELSE 0

TextOf(r, key) == IF key \in DOMAIN r THEN r[key] ELSE << >>
DeptOf(r) == TextOf(r, DEPARTMENT)

\* payout (hundredths) is hours * rate (millionths) to within half a hundredth.
NearProduct(payout, hours, rate) == Abs(10000 * payout - hours * rate) <= 5000

\* e is the payout entry of record r.
EntryOf(e, r) ==
  /\ e.id = TextOf(r, ID)
  /\ e.name = TextOf(r, NAME)
  /\ e.department = TextOf(r, DEPARTMENT)
  /\ NearProduct(e.payout, HoursOf(r), RateOf(r))

\* How many of the first i records are valid for the payout report.
ValidUpTo(recs, i) == Cardinality({ j \in 1..i : PayoutValid(recs[j]) })

\* How many of the first i records contribute a rate to the department of
\* record i.
ContributingUpTo(recs, i) ==
  Cardinality({ j \in 1..i : RateValid(recs[j]) /\ DeptOf(recs[j]) = DeptOf(recs[i]) })

\* The records that contribute a rate to department d.
Contributors(recs, d) ==
  { i \in 1..Len(recs) : RateValid(recs[i]) /\ DeptOf(recs[i]) = d }

RECURSIVE SumRates(_, _)
SumRates(recs, idx) ==
  IF idx = { } THEN 0
  ELSE LET i == CHOOSE j \in idx : TRUE
       IN  RateOf(recs[i]) + SumRates(recs, idx \ { i })

RECURSIVE TotalRates(_, _)
TotalRates(depts, keys) ==
  IF keys = { } THEN 0
  ELSE LET d == CHOOSE k \in keys : TRUE
       IN  Len(depts[d]) + TotalRates(depts, keys \ { d })

PayoutDone == payout_report # << >>
AverageDone == average_report # << >>
PayoutEntries == payout_report[1].results
AverageValues == average_report[1].results

(* ------------------------------------------------------------------ *)
(* Claims on the reports                                               *)
(* ------------------------------------------------------------------ *)

\* C1: whatever invalid records the list holds, PayoutReport.generate returns,
\* and its results are the entries of the valid records, one each, in input
\* order, with nothing standing for a skipped record.
C1_SkipWithoutAbort ==
  PayoutDone =>
    LET valid == SelectSeq(records, PayoutValid)
    IN  /\ payout_report[1].report = "payout"
        /\ Len(PayoutEntries) = Len(valid)
        /\ \A k \in 1..Len(valid) : EntryOf(PayoutEntries[k], valid[k])

\* C1 witness: a record without a rate field is followed by a valid one, and
\* the report holds the one entry.
C1_Witness ==
  /\ PayoutDone
  /\ Len(records) = 2
  /\ RateFieldNames \cap DOMAIN records[1] = { }
  /\ PayoutValid(records[2])
  /\ Len(PayoutEntries) = 1
  /\ Len(Warnings(log)) = 1

\* C2: a record with two or more rate fields enters the payout and the
\* department's rates with the value of its earliest rate field only; when that
\* value is not numeric the record is skipped, whatever the later fields hold.
C2_RatePriority ==
  /\ PayoutDone =>
       /\ Len(PayoutEntries) = ValidUpTo(records, Len(records))
       /\ \A i \in 1..Len(records) :
            MultiRate(records[i]) /\ PayoutValid(records[i]) =>
              NearProduct(PayoutEntries[ValidUpTo(records, i)].payout,
                          HoursOf(records[i]),
                          FloatVal(records[i][EarliestRateField(records[i])]))
  /\ AverageDone =>
       /\ \A d \in DOMAIN departments :
            Len(departments[d]) = Cardinality(Contributors(records, d))
       /\ \A i \in 1..Len(records) :
            MultiRate(records[i]) =>
              IF FloatOk(records[i][EarliestRateField(records[i])])
              THEN /\ DeptOf(records[i]) \in DOMAIN departments
                   /\ departments[DeptOf(records[i])][ContributingUpTo(records, i)]
                        = FloatVal(records[i][EarliestRateField(records[i])])
              ELSE Contributors(records, DeptOf(records[i])) = { }
                     => DeptOf(records[i]) \notin DOMAIN departments

\* C2 witness: both reports ran on a record whose hourly_rate is numeric and
\* differs from its rate, and on one whose hourly_rate is not numeric while
\* its rate is.
C2_Witness ==
  /\ PayoutDone /\ AverageDone
  /\ Len(records) = 2
  /\ MultiRate(records[1]) /\ PayoutValid(records[1])
  /\ records[1][HOURLY_RATE] # records[1][RATE]
  /\ MultiRate(records[2]) /\ ~FloatOk(records[2][HOURLY_RATE])
  /\ FloatOk(records[2][RATE])
  /\ Len(PayoutEntries) = 1
  /\ PayoutEntries[1].payout = 7562

\* C4: each average is the mean, to two decimals, of the resolved rates of the
\* department's records whose rate is present and numeric; a record without a
\* department counts under the empty text, and hours_worked plays no part.
C4_AverageIsMean ==
  AverageDone =>
    \A d \in DOMAIN AverageValues :
      LET idx == Contributors(records, d)
          n == Cardinality(idx)
      IN  /\ n > 0
          /\ Abs(10 * n * AverageValues[d] - SumRates(records, idx)) <= 5 * n

\* C4 witness: two records of the empty department, one without the field and
\* with hours that are not numeric, the other with the field empty; their
\* rates -45.5 and 30.25 average to -7.62.
C4_Witness ==
  /\ AverageDone
  /\ Len(records) = 2
  /\ DEPARTMENT \notin DOMAIN records[1] /\ DEPARTMENT \in DOMAIN records[2]
  /\ RateValid(records[1]) /\ ~HoursValid(records[1])
  /\ RateValid(records[2])
  /\ RateOf(records[1]) # RateOf(records[2])
  /\ DOMAIN AverageValues = { EmptyText }
  /\ AverageValues[EmptyText] = 0 - 762

\* C5: the departments of the average report are exactly those with at least
\* one record whose resolved rate is present and numeric.
C5_OmissionNotZero ==
  AverageDone =>
    DOMAIN AverageValues =
      { DeptOf(records[i]) : i \in { j \in 1..Len(records) : RateValid(records[j]) } }

\* C5 witness: a department whose only record has a rate that is not numeric is
\* left out, beside a department that is reported.
C5_Witness ==
  /\ AverageDone
  /\ Len(records) = 2
  /\ ~RateValid(records[1]) /\ RateFieldNames \cap DOMAIN records[1] # { }
  /\ RateValid(records[2])
  /\ DeptOf(records[1]) # DeptOf(records[2])
  /\ DeptOf(records[1]) \notin DOMAIN AverageValues
  /\ DeptOf(records[2]) \in DOMAIN AverageValues

\* C8: a record with a numeric rate and no hours_worked is not skipped: it has
\* its one entry, with payout 0 and with the empty text for each of id, name
\* and department it lacks.
C8_AbsentHoursIsZero ==
  PayoutDone =>
    /\ Len(PayoutEntries) = ValidUpTo(records, Len(records))
    /\ \A i \in 1..Len(records) :
         RateValid(records[i]) /\ HOURS_WORKED \notin DOMAIN records[i] =>
           LET e == PayoutEntries[ValidUpTo(records, i)]
           IN  /\ ValidUpTo(records, i) \in 1..Len(PayoutEntries)
               /\ e.payout = 0
               /\ \A key \in { ID, NAME, DEPARTMENT } \ DOMAIN records[i] :
                    /\ key = ID => e.id = EmptyText
                    /\ key = NAME => e.name = EmptyText
                    /\ key = DEPARTMENT => e.department = EmptyText

\* C8 witness: the only record has a numeric salary and nothing else.
C8_Witness ==
  /\ PayoutDone
  /\ Len(records) = 1
  /\ DOMAIN records[1] = { SALARY }
  /\ PayoutEntries = << [ id |-> EmptyText, name |-> EmptyText,
                          department |-> EmptyText, payout |-> 0 ] >>

\* C9 as stated: every payout is non-negative and is hours * rate to two
\* decimals, negative hours or rates included.
C9_PayoutNonNegative ==
  PayoutDone =>
    LET valid == SelectSeq(records, PayoutValid)
    IN  \A k \in 1..Len(PayoutEntries) :
          /\ PayoutEntries[k].payout >= 0
          /\ NearProduct(PayoutEntries[k].payout, HoursOf(valid[k]), RateOf(valid[k]))

\* C9 amended: every payout is hours * rate to two decimals; it is
\* non-negative when hours * rate is, and it is not positive when hours * rate
\* is negative.
C9_PayoutIsProduct ==
  PayoutDone =>
    LET valid == SelectSeq(records, PayoutValid)
    IN  /\ Len(PayoutEntries) = Len(valid)
        /\ \A k \in 1..Len(PayoutEntries) :
             LET hours == HoursOf(valid[k])
                 rate == RateOf(valid[k])
                 payout == PayoutEntries[k].payout
             IN  /\ NearProduct(payout, hours, rate)
                 /\ hours * rate >= 0 => payout >= 0
                 /\ hours * rate < 0 => payout <= 0

\* C9 witness: 2.5 hours at a salary of -45.5 pay -113.75, and 2.5 hours at
\* 30.25 pay 75.62.
C9_Witness ==
  /\ PayoutDone
  /\ Len(records) = 2
  /\ Len(PayoutEntries) = 2
  /\ PayoutEntries[1].payout = 0 - 11375
  /\ PayoutEntries[2].payout = 7562

\* C10: a record has a payout entry exactly when it contributes a rate to the
\* average report and its hours_worked is absent or numeric; so the payout
\* entries are never more than the rates accumulated, and fewer by the number
\* of records with a valid rate and hours that are not numeric.
C10_ReportsAgree ==
  PayoutDone /\ AverageDone =>
    LET total == TotalRates(departments, DOMAIN departments)
        badHours == { i \in 1..Len(records) :
                        RateValid(records[i]) /\ ~HoursValid(records[i]) }
    IN  /\ Len(PayoutEntries) <= total
        /\ total - Len(PayoutEntries) = Cardinality(badHours)
        /\ Len(records) = 1 =>
             (Len(PayoutEntries) = 1 <=> total = 1 /\ HoursValid(records[1]))

\* C10 witness: of two records with a valid rate, one has hours that are not
\* numeric: two rates are accumulated and one payout entry is made.
C10_Witness ==
  /\ PayoutDone /\ AverageDone
  /\ Len(records) = 2
  /\ RateValid(records[1]) /\ ~HoursValid(records[1])
  /\ PayoutValid(records[2])
  /\ TotalRates(departments, DOMAIN departments) = 2
  /\ Len(PayoutEntries) = 1

(* ------------------------------------------------------------------ *)
(* Claims on parse_csv                                                 *)
(* ------------------------------------------------------------------ *)

RECURSIVE Count(_, _)
Count(s, c) ==
  IF s = << >> THEN 0 ELSE (IF Head(s) = c THEN 1 ELSE 0) + Count(Tail(s), c)

\* The delimiter-separated pieces of a line: one more than its commas.
FieldCount(line) == Count(line, ",") + 1

\* The lines of a text: its line ends, and a last line without one.
LineCount(text) ==
  Count(text, "\n") + (IF text # << >> /\ text[Len(text)] # "\n" THEN 1 ELSE 0)

HeaderLine == ReadLine(file.text)
Accepted(line) == FieldCount(line) = FieldCount(HeaderLine)
Rejected(line) == ~Accepted(line)
Returned == pc = "returned"

\* C3 as stated: every record has as many fields as the header line has
\* delimiter-separated names, headers with repeated names included.
C3_FieldCountIsHeaderCount ==
  Returned =>
    \A k \in 1..Len(parsed) :
      Cardinality(DOMAIN parsed[k]) = FieldCount(HeaderLine)

\* C3 amended: every record has as many fields as the header has distinct
\* names, which is the header's field count exactly when no name is repeated;
\* and every row behind a record had as many values as the header has names.
C3_FieldCountIsDistinctNames ==
  Returned =>
    LET names == Range(Header(file.text))
        rows == SelectSeq(DataLines(file.text), Accepted)
    IN  /\ Len(parsed) = Len(rows)
        /\ \A k \in 1..Len(parsed) :
             /\ DOMAIN parsed[k] = names
             /\ Cardinality(DOMAIN parsed[k]) = FieldCount(HeaderLine)
                  <=> Cardinality(names) = FieldCount(HeaderLine)
             /\ FieldCount(rows[k]) = FieldCount(HeaderLine)

\* C3 witness: under the header "a,a" the row "1,2" gives a record of one
\* field, whose value is that of the last column.
C3_Witness ==
  /\ Returned
  /\ FieldCount(HeaderLine) = 2
  /\ Len(parsed) = 1
  /\ Cardinality(DOMAIN parsed[1]) = 1
  /\ parsed[1][<< "a" >>] = << "2" >>

\* C6: of the n data lines after the header, each whose number of values
\* differs from the header's is rejected with one warning naming it, each other
\* one gives one record, in line order, so records + warnings = n; the empty
\* file gives no record and no diagnostic.
C6_EveryLineHandled ==
  Returned =>
    IF file.text = << >>
    THEN parsed = << >> /\ \A i \in 1..Len(log) : log[i].level = "INFO"
    ELSE LET header == Header(file.text)
             rows == SelectSeq(DataLines(file.text), Accepted)
             bad == SelectSeq(DataLines(file.text), Rejected)
         IN  /\ Len(parsed) + Len(Warnings(log)) = LineCount(file.text) - 1
             /\ Len(parsed) = Len(rows)
             /\ \A k \in 1..Len(rows) : \A j \in 1..Len(header) :
                  parsed[k][header[j]] \in
                    { SplitFields(rows[k])[i] :
                        i \in { h \in 1..Len(header) : header[h] = header[j] } }
             /\ Len(Warnings(log)) = Len(bad)
             /\ \A k \in 1..Len(bad) : Warnings(log)[k].line = Strip(bad[k])
             /\ \A i \in 1..Len(log) : log[i].level # "ERROR"

\* C6 witness: after the header "a,b", the line "1" is rejected with a warning
\* and the line "1,2" after it gives the one record.
C6_Witness ==
  /\ Returned
  /\ LineCount(file.text) = 3
  /\ Rejected(DataLines(file.text)[1])
  /\ Accepted(DataLines(file.text)[2])
  /\ Len(Warnings(log)) = 1
  /\ parsed = << (<< "a" >> :> << "1" >>) @@ (<< "b" >> :> << "2" >>) >>

(* ------------------------------------------------------------------ *)
(* Claims on main                                                      *)
(* ------------------------------------------------------------------ *)

Unreadable == { i \in 1..Len(files) : ~FileOk(files[i]) }
\* The index of the first unreadable file; past the last file when all are readable.
FirstUnreadable ==
  IF Unreadable = { } THEN Len(files) + 1
  ELSE CHOOSE i \in Unreadable : \A j \in Unreadable : i <= j

\* The log holds an error of parse_csv.
ParseFailed ==
  \E i \in 1..Len(log) :
    log[i].level = "ERROR" /\ log[i].msg \in { "file_not_found", "read_error" }

\* C7: with an unreadable file among the inputs the run can only end with
\* exit code 1, at the first such file: no file from it on is parsed, no report
\* is generated, nothing is written, though earlier files were parsed; and
\* without one parse_csv never ends the process, whatever its rows hold.
C7_FatalOnFirstUnreadable ==
  /\ Unreadable # { } =>
       /\ nparsed < FirstUnreadable
       /\ report = << >>
       /\ written = NothingWritten
       /\ pc \in { "parse", "exit" }
       /\ pc = "exit" =>
            /\ exit_code = 1
            /\ nparsed = FirstUnreadable - 1
            /\ ParseFailed
  /\ Unreadable = { } =>
       /\ ~ParseFailed
       /\ pc = "exit" => report # << >>

\* C7 witness: the first file, with its rejected row, was parsed; the second
\* is missing; the process has exited with nothing generated or written.
C7_Witness ==
  /\ Len(files) = 2
  /\ FileOk(files[1]) /\ ParseCsvWarnings(files[1]) # << >>
  /\ files[2] = MissingFile
  /\ pc = "exit" /\ exit_code = 1
  /\ nparsed = 1 /\ all_records # << >>
  /\ report = << >> /\ written = NothingWritten

====
